---- MODULE Spec2Model ----
(***************************************************************************)
(* Model of the acquisition controller of the spectrum console             *)
(* (console.spcm_control.acquisition_control.AcquisitionControl): the      *)
(* global acquisition parameters, set_sequence, run and post_processing,   *)
(* together with the TX/RX card facades the controller drives and the RX   *)
(* worker that appends gates to rx_data while the RX card is running.      *)
(*                                                                         *)
(* Arrays are modelled by their shapes: a gate of rx_data by its readout   *)
(* length, a bucket of _raw / _unproc by [rows, coils, npe, nro].          *)
(* Time is a discrete clock; time.sleep advances it by a positive amount.  *)
(***************************************************************************)
EXTENDS Integers, Sequences, FiniteSets, TLC

(***************************************************************************)
(* Bounds of the model                                                     *)
(***************************************************************************)
\* largest num_averages a parameter record holds
MaxAverages == 2
\* most gates the RX worker delivers between one start_operation and the next
MaxGates == 2
\* most calls of glob.update in one behaviour
MaxUpdates == 1
\* the most gates in the rx_data handed to the grouping of post_processing
MaxArrivals == 3
\* the most block events in a sequence handed to unroll_sequence
MaxBlocks == 2
\* most calls of add_info, and of add_data, on one AcquisitionData object
MaxEdits == 2
\* most calls of save on one AcquisitionData object
MaxSaves == 3

(***************************************************************************)
(* Program constants                                                       *)
(***************************************************************************)
\* timeout = 5 + self.unrolled_seq.duration
TimeoutSeconds == 5
\* if larmor_freq > 10e6 (in MHz)
LarmorLimit == 10
\* self.rx_card.num_channels: receive coils of the RX card configuration
NumCoils == 1
\* tx_card.max_amplitude / output_limits of a gradient channel
OutputLimit == 1

(***************************************************************************)
(* Input domains                                                           *)
(***************************************************************************)
Threads == {1, 2}
Larmors == {2, 11}
NumAverages == 1..MaxAverages
GradOffsets == {0, 1}
Decimations == {2, 4}
ReadoutLens == {4, 8}
\* the number of blocks with an ADC event in a sequence
AdcCounts == {0, 2}
\* clock units a time.sleep(0.01) may take
SleepTicks == {3, 6}

\* AcquisitionParameter: the fields AcquisitionControl reads
Params ==
    [larmor_frequency : Larmors, num_averages : NumAverages,
     gradient_offset : GradOffsets, decimation : Decimations]

DefaultParam ==
    [larmor_frequency |-> 2, num_averages |-> 1, gradient_offset |-> 1, decimation |-> 2]

\* update: the keyword arguments (change) of one call
Changes ==
    [field : {"larmor_frequency"}, value : Larmors] \cup
    [field : {"num_averages"}, value : NumAverages]

\* AcquisitionParameter.update: a new record with the changed field
ParamUpdate(p, c) ==
    CASE c.field = "larmor_frequency" -> [p EXCEPT !.larmor_frequency = c.value]
      [] c.field = "num_averages" -> [p EXCEPT !.num_averages = c.value]
      [] c.field = "gradient_offset" -> [p EXCEPT !.gradient_offset = c.value]
      [] OTHER -> [p EXCEPT !.decimation = c.value]

\* AcquisitionParameter.get_hash: a content hash, equal iff field-wise equal
get_hash(p) ==
    ((p.larmor_frequency * 16 + p.num_averages) * 16 + p.gradient_offset) * 16 + p.decimation

\* A parsed sequence held by the sequence provider: its block count, the number
\* of blocks with an ADC event and its duration in seconds.
Sequences ==
    {[blocks |-> 0, adc_count |-> 0, duration |-> 0]} \cup
    {[blocks |-> a + 1, adc_count |-> a, duration |-> 1] : a \in AdcCounts}

\* SequenceProvider.unroll_sequence: the precondition checks
UnrollFails(s, p) ==
    \/ p.larmor_frequency > LarmorLimit
    \/ ~(s.blocks > 0)
    \/ p.gradient_offset > OutputLimit

\* SequenceProvider.unroll_sequence: the UnrolledSequence of a successful unroll
UnrollResult(s, p) ==
    [adc_count |-> s.adc_count, duration |-> s.duration,
     larmor_frequency |-> p.larmor_frequency, grad_offset |-> p.gradient_offset]

\* None, for each kind of value that may be None
NoneParam ==
    [larmor_frequency |-> 0, num_averages |-> 0, gradient_offset |-> 0, decimation |-> 0]
NoneSequence == [blocks |-> 0 - 1, adc_count |-> 0, duration |-> 0]
NoneUnrolled == [adc_count |-> 0, duration |-> 0, larmor_frequency |-> 0, grad_offset |-> 0]
NoneResult == [raw |-> <<>>, unproc |-> <<>>, decimation |-> 0, acquisition_parameters |-> NoneParam]

(***************************************************************************)
(* State                                                                   *)
(***************************************************************************)
VARIABLES
    parameter,      \* glob.parameter
    updates,        \* number of glob.update calls so far
    is_setup,       \* self.is_setup
    sequence,       \* the sequence loaded into self.seq_provider (None before)
    param_hash,     \* self.param_hash
    unrolled_seq,   \* self.unrolled_seq
    raw,            \* self._raw: bucket shapes
    unproc,         \* self._unproc: bucket shapes
    tx_running,     \* TX card replaying
    tx_offsets,     \* gradient DC offset programmed on the TX card
    tx_seq,         \* the unrolled sequence handed to tx_card.start_operation
    rx_running,     \* RX card capturing
    rx_data,        \* rx_card.rx_data: the readout length of each gate
    pc,             \* per calling thread: position in run
    frame,          \* per calling thread: the local variables of run
    outcome,        \* per calling thread: how the call ended
    result,         \* per calling thread: the AcquisitionData returned
    entry,          \* per calling thread (history): parameter, hash and updates at run entry
    unrolls,        \* per calling thread (history): unroll_sequence calls of this run
    avg_calls,      \* per calling thread (history): card operations called in this average
    call,           \* the call of a SequenceProvider or post-processing function under study
    acq,            \* an AcquisitionData object: meta["info"], _additional_data, last save call
    files,          \* the acquisition folder under each base path
    sync            \* the SyncCard: self.worker, the state of the device, the last call

vars ==
    <<parameter, updates, is_setup, sequence, param_hash, unrolled_seq, raw, unproc,
      tx_running, tx_offsets, tx_seq, rx_running, rx_data, pc, frame, outcome, result,
      entry, unrolls, avg_calls, call, acq, files, sync>>

ctrl_vars == <<is_setup, sequence, param_hash, unrolled_seq>>
data_vars == <<raw, unproc>>
tx_vars == <<tx_running, tx_offsets, tx_seq>>
rx_vars == <<rx_running, rx_data>>
hist_vars == <<entry, unrolls, avg_calls>>
glob_vars == <<parameter, updates>>
obj_vars == <<acq, files, sync>>

NoEntry == [param |-> NoneParam, hash |-> 0, upd |-> 0]

\* the local variables of run: k, num_gates, timeout, time.time() - time_start
\* (elapsed), range(glob.parameter.num_averages) (navg), whether the timeout warning
\* was logged in the current average (warned), and in post_processing the
\* parameter argument (pp_param) and readout_sizes (pp_sizes)
NoFrame ==
    [k |-> 0, navg |-> 0, num_gates |-> 0, elapsed |-> 0, timeout |-> 0, warned |-> FALSE,
     pp_param |-> NoneParam, pp_sizes |-> <<>>]

\* every variable of the acquisition control
ctl_vars ==
    <<glob_vars, ctrl_vars, data_vars, tx_vars, rx_vars, pc, frame, outcome, result, hist_vars>>

\* no function call under study
NoCall == [fn |-> "none"]

\* the base paths of save: self.session_path (user_path None) and a user path
BasePaths == {"session", "user"}

\* no acquisition folder under a base path
NoFolder == [exists |-> FALSE]

\* save has not been called
NoSave == [called |-> FALSE]

\* AcquisitionData.__post_init__: the info is empty and no additional data is held
NewAcquisitionData == [info |-> 0, extra |-> 0, saves |-> 0, last |-> NoSave]

\* SyncCard.__post_init__: self.worker = None, the device is not started
NewSyncCard == [worker |-> "None", started |-> FALSE, last |-> "none"]

\* AcquisitionControl.__init__
Init ==
    /\ parameter \in {[DefaultParam EXCEPT !.num_averages = n] : n \in NumAverages}
    /\ updates = 0
    /\ is_setup \in BOOLEAN
    /\ sequence = NoneSequence
    /\ param_hash = get_hash(parameter)
    /\ unrolled_seq = NoneUnrolled
    /\ raw = <<>>
    /\ unproc = <<>>
    /\ tx_running = FALSE
    /\ tx_offsets = 0
    /\ tx_seq = NoneUnrolled
    /\ rx_running = FALSE
    /\ rx_data = <<>>
    /\ pc = [t \in Threads |-> "idle"]
    /\ frame = [t \in Threads |-> NoFrame]
    /\ outcome = [t \in Threads |-> "none"]
    /\ result = [t \in Threads |-> NoneResult]
    /\ entry = [t \in Threads |-> NoEntry]
    /\ unrolls = [t \in Threads |-> 0]
    /\ avg_calls = [t \in Threads |-> {}]
    /\ call = NoCall
    /\ acq = NewAcquisitionData
    /\ files = [b \in BasePaths |-> NoFolder]
    /\ sync = NewSyncCard

\* the call ends by raising err; its local variables are gone
Raise(t, err) ==
    /\ pc' = [pc EXCEPT ![t] = "ended"]
    /\ outcome' = [outcome EXCEPT ![t] = err]
    /\ frame' = [frame EXCEPT ![t] = NoFrame]

\* the call goes on at position pos with the local variables f
Goto(t, pos, f) ==
    /\ pc' = [pc EXCEPT ![t] = pos]
    /\ frame' = [frame EXCEPT ![t] = f]
    /\ UNCHANGED outcome

(***************************************************************************)
(* glob.update of a change                                                 *)
(***************************************************************************)
Update ==
    /\ updates < MaxUpdates
    /\ \E c \in Changes :
        /\ ParamUpdate(parameter, c) # parameter
        /\ parameter' = ParamUpdate(parameter, c)
    /\ updates' = updates + 1
    /\ UNCHANGED <<obj_vars, call, ctrl_vars, data_vars, tx_vars, rx_vars, pc, frame, outcome, result,
                   hist_vars>>

\* glob.update(decimation=q)
UpdateDecimation ==
    /\ updates < MaxUpdates
    /\ \E q \in Decimations :
        /\ q # parameter.decimation
        /\ parameter' = ParamUpdate(parameter, [field |-> "decimation", value |-> q])
    /\ updates' = updates + 1
    /\ UNCHANGED <<obj_vars, call, ctrl_vars, data_vars, tx_vars, rx_vars, pc, frame, outcome, result,
                   hist_vars>>

(***************************************************************************)
(* AcquisitionControl.set_sequence, called with a valid sequence           *)
(***************************************************************************)
SetSequence(t) ==
    /\ pc[t] = "idle"
    /\ \E s \in Sequences :
        /\ sequence' = s
        /\ param_hash' = get_hash(parameter)
        /\ unrolled_seq' = IF UnrollFails(s, parameter) THEN NoneUnrolled
                           ELSE UnrollResult(s, parameter)
    /\ UNCHANGED <<obj_vars, call, glob_vars, is_setup, data_vars, tx_vars, rx_vars, pc, frame, outcome,
                   result, hist_vars>>

(***************************************************************************)
(* The RX worker: appends one gate to rx_data while the card is running.    *)
(* A gate is observed only while the TX card replays the sequence, whose    *)
(* samples carry the ADC gate signal.                                      *)
(***************************************************************************)
RxWorkerAppend ==
    /\ rx_running
    /\ tx_running
    /\ Len(rx_data) < MaxGates
    /\ \E n \in ReadoutLens : rx_data' = Append(rx_data, n)
    /\ UNCHANGED <<obj_vars, call, glob_vars, ctrl_vars, data_vars, tx_vars, rx_running, pc, frame,
                   outcome, result, hist_vars>>

(***************************************************************************)
(* AcquisitionControl.post_processing on shapes                            *)
(***************************************************************************)
\* the elements of a set of numbers in ascending order
RECURSIVE SortedSeq(_)
SortedSeq(S) ==
    IF S = {} THEN <<>>
    ELSE LET m == CHOOSE x \in S : \A y \in S : x <= y
         IN  <<m>> \o SortedSeq(S \ {m})

\* np.unique(readout_sizes) without return_index: the distinct sizes in ascending order
SortedUnique(sizes) == SortedSeq({sizes[i] : i \in 1..Len(sizes)})

\* the distinct readout sizes in the order of their first occurrence
RECURSIVE FirstOccurrence(_)
FirstOccurrence(sizes) ==
    IF sizes = <<>> THEN <<>>
    ELSE LET init == FirstOccurrence(SubSeq(sizes, 1, Len(sizes) - 1))
             last == sizes[Len(sizes)]
         IN  IF \E i \in 1..Len(init) : init[i] = last THEN init ELSE Append(init, last)

\* the number of gates of readout length n in data
GateCount(data, n) == Cardinality({i \in 1..Len(data) : data[i] = n})

\* grouped_gates[data.shape[-1]].append(data) and np.stack(group, axis=1):
\* the error raised while grouping data under the keys taken from sizes
GroupError(sizes, data) ==
    LET keys == FirstOccurrence(sizes)
    IN  IF \E i \in 1..Len(data) : \A j \in 1..Len(keys) : keys[j] # data[i]
           THEN "KeyError"
        ELSE IF \E j \in 1..Len(keys) : GateCount(data, keys[j]) = 0
           THEN "ValueError"
        ELSE "none"

\* for data in self.rx_card.rx_data: grouped_gates[data.shape[-1]].append(data),
\* from gate i on; a gate is named by its position in data
RECURSIVE GroupLoop(_, _, _, _)
GroupLoop(keys, data, i, groups) ==
    IF i > Len(data) THEN groups
    ELSE LET j == CHOOSE j \in 1..Len(keys) : keys[j] = data[i]
         IN  GroupLoop(keys, data, i + 1, [groups EXCEPT ![j] = Append(@, i)])

\* grouped_gates.values(): one list of gates per key, in the order of the keys
grouped_gates(sizes, data) ==
    LET keys == FirstOccurrence(sizes)
    IN  GroupLoop(keys, data, 1, [j \in 1..Len(keys) |-> <<>>])

\* gate_lengths: one stacked group [n_coils, npe, nro] per key
gate_lengths(sizes, data) ==
    LET keys == FirstOccurrence(sizes)
        groups == grouped_gates(sizes, data)
    IN  [j \in 1..Len(keys) |-> [npe |-> Len(groups[j]), nro |-> keys[j]]]

\* a post-processing that keeps every sample of the readout
Undecimated(n, q) == n

\* signal.decimate(data, q, ftype="fir"): the readout length after decimation
Decimated(n, q) == (n + q - 1) \div q

\* np.concatenate along axis 0 needs equal trailing dimensions
SameShape(b, d) == b.coils = d.coils /\ b.npe = d.npe /\ b.nro = d.nro

\* the loop over gate_lengths from bucket j on: the lists it leaves and its error
RECURSIVE PPLoop(_, _, _, _, _, _)
PPLoop(gl, j, raw_size, u, r, q) ==
    IF j > Len(gl) THEN [unproc |-> u, raw |-> r, err |-> "none"]
    ELSE
      LET du == [rows |-> 1, coils |-> NumCoils + 1, npe |-> gl[j].npe, nro |-> gl[j].nro]
          dr == [rows |-> 1, coils |-> NumCoils, npe |-> gl[j].npe,
                 nro |-> Decimated(gl[j].nro, q)]
      IN  IF raw_size > 0
          THEN IF j > Len(u) THEN [unproc |-> u, raw |-> r, err |-> "IndexError"]
               ELSE IF ~SameShape(u[j], du) THEN [unproc |-> u, raw |-> r, err |-> "ValueError"]
               ELSE LET u2 == [u EXCEPT ![j].rows = @ + 1]
                    IN  IF j > Len(r) THEN [unproc |-> u2, raw |-> r, err |-> "IndexError"]
                        ELSE IF ~SameShape(r[j], dr)
                             THEN [unproc |-> u2, raw |-> r, err |-> "ValueError"]
                        ELSE PPLoop(gl, j + 1, raw_size, u2, [r EXCEPT ![j].rows = @ + 1], q)
          ELSE PPLoop(gl, j + 1, raw_size, Append(u, du), Append(r, dr), q)

\* post_processing: readout sizes read first (sizes), rx_data read again (data)
post_processing(sizes, data, u, r, q) ==
    IF GroupError(sizes, data) # "none"
    THEN [unproc |-> u, raw |-> r, err |-> GroupError(sizes, data)]
    ELSE PPLoop(gate_lengths(sizes, data), 1, Len(r), u, r, q)

(***************************************************************************)
(* AcquisitionControl.run, one action per step of the calling thread       *)
(***************************************************************************)
\* a run that goes on without the setup and sequence checks
RunEnterUnchecked(t) ==
    /\ pc[t] = "idle"
    /\ Goto(t, "hash", NoFrame)
    /\ entry' = [entry EXCEPT ![t] = [param |-> parameter, hash |-> param_hash, upd |-> updates]]
    /\ unrolls' = [unrolls EXCEPT ![t] = 0]
    /\ UNCHANGED <<obj_vars, call, glob_vars, ctrl_vars, data_vars, tx_vars, rx_vars, result, avg_calls>>

\* the setup and sequence checks
RunEnter(t) ==
    /\ pc[t] = "idle"
    /\ IF ~is_setup THEN Raise(t, "RuntimeError")
       ELSE IF unrolled_seq = NoneUnrolled THEN Raise(t, "NoSequence")
       ELSE Goto(t, "hash", NoFrame)
    /\ entry' = [entry EXCEPT ![t] = [param |-> parameter, hash |-> param_hash, upd |-> updates]]
    /\ unrolls' = [unrolls EXCEPT ![t] = 0]
    /\ UNCHANGED <<obj_vars, call, glob_vars, ctrl_vars, data_vars, tx_vars, rx_vars, result, avg_calls>>

\* a run that keeps the cached sequence whatever the hash
HashIgnored(t) ==
    /\ pc[t] = "hash"
    /\ Goto(t, "begin", frame[t])
    /\ UNCHANGED <<obj_vars, call, glob_vars, ctrl_vars, data_vars, tx_vars, rx_vars, result, hist_vars>>

\* if self.param_hash != glob.parameter.get_hash(): self.unrolled_seq = None
HashCheck(t) ==
    /\ pc[t] = "hash"
    /\ IF param_hash # get_hash(parameter)
          THEN /\ unrolled_seq' = NoneUnrolled
               /\ Goto(t, "rehash", frame[t])
          ELSE /\ UNCHANGED unrolled_seq
               /\ Goto(t, "begin", frame[t])
    /\ UNCHANGED <<obj_vars, call, glob_vars, is_setup, sequence, param_hash, data_vars, tx_vars, rx_vars,
                   result, hist_vars>>

\* self.param_hash = glob.parameter.get_hash()
Rehash(t) ==
    /\ pc[t] = "rehash"
    /\ param_hash' = get_hash(parameter)
    /\ Goto(t, "unroll", frame[t])
    /\ UNCHANGED <<obj_vars, call, glob_vars, is_setup, sequence, unrolled_seq, data_vars, tx_vars, rx_vars,
                   result, hist_vars>>

\* self.unrolled_seq = self.seq_provider.unroll_sequence()
Unroll(t) ==
    /\ pc[t] = "unroll"
    /\ unrolls' = [unrolls EXCEPT ![t] = 1]
    /\ IF UnrollFails(sequence, parameter)
          THEN /\ UNCHANGED unrolled_seq
               /\ Raise(t, "UnrollError")
          ELSE /\ unrolled_seq' = UnrollResult(sequence, parameter)
               /\ Goto(t, "begin", frame[t])
    /\ UNCHANGED <<obj_vars, call, glob_vars, is_setup, sequence, param_hash, data_vars, tx_vars, rx_vars,
                   result, entry, avg_calls>>

\* timeout, self._unproc = [], self._raw = [], tx_card.set_gradient_offsets
Begin(t) ==
    /\ pc[t] = "begin"
    /\ IF unrolled_seq = NoneUnrolled
          THEN /\ Raise(t, "AttributeError")
               /\ UNCHANGED <<data_vars, tx_offsets>>
          ELSE /\ unproc' = <<>>
               /\ raw' = <<>>
               /\ tx_offsets' = parameter.gradient_offset
               /\ Goto(t, "for",
                       [frame[t] EXCEPT !.timeout = TimeoutSeconds + unrolled_seq.duration])
    /\ UNCHANGED <<obj_vars, call, glob_vars, ctrl_vars, tx_running, tx_seq, rx_vars, result, hist_vars>>

\* for k in range(glob.parameter.num_averages)
ForAverages(t) ==
    /\ pc[t] = "for"
    /\ avg_calls' = [avg_calls EXCEPT ![t] = {}]
    /\ Goto(t, IF parameter.num_averages > 0 THEN "rx_start" ELSE "reset",
            [frame[t] EXCEPT !.navg = parameter.num_averages, !.k = 0])
    /\ UNCHANGED <<obj_vars, call, glob_vars, ctrl_vars, data_vars, tx_vars, rx_vars, result, entry, unrolls>>

\* a run that goes on to start TX without calling rx_card.start_operation
RxStartOmitted(t) ==
    /\ pc[t] = "rx_start"
    /\ Goto(t, "tx_start", [frame[t] EXCEPT !.warned = FALSE])
    /\ UNCHANGED <<obj_vars, call, glob_vars, ctrl_vars, data_vars, tx_vars, rx_vars, result, hist_vars>>

\* self.rx_card.start_operation(): clears rx_data and starts the capture
RxStart(t) ==
    /\ pc[t] = "rx_start"
    /\ avg_calls' = [avg_calls EXCEPT ![t] = @ \cup {"rx_start"}]
    /\ \E ok \in BOOLEAN :
        IF ok THEN /\ rx_running' = TRUE
                   /\ rx_data' = <<>>
                   /\ Goto(t, "tx_start", [frame[t] EXCEPT !.warned = FALSE])
              ELSE /\ UNCHANGED rx_vars
                   /\ Raise(t, "DeviceError")
    /\ UNCHANGED <<obj_vars, call, glob_vars, ctrl_vars, data_vars, tx_vars, result, entry, unrolls>>

\* self.tx_card.start_operation(self.unrolled_seq); time_start = time.time()
TxStart(t) ==
    /\ pc[t] = "tx_start"
    /\ avg_calls' = [avg_calls EXCEPT ![t] = @ \cup {"tx_start"}]
    /\ \E ok \in BOOLEAN :
        IF ok /\ unrolled_seq # NoneUnrolled
           THEN /\ tx_running' = TRUE
                /\ tx_seq' = unrolled_seq
                /\ Goto(t, "poll", [frame[t] EXCEPT !.elapsed = 0])
           ELSE /\ UNCHANGED <<tx_running, tx_seq>>
                /\ Raise(t, "DeviceError")
    /\ UNCHANGED <<obj_vars, call, glob_vars, ctrl_vars, data_vars, tx_offsets, rx_vars, result, entry,
                   unrolls>>

\* where run goes when the while loop is left: if num_gates > 0: post_processing
AfterWait(n) == IF n > 0 THEN "pp_sizes" ELSE "tx_stop"

\* while (num_gates := len(self.rx_card.rx_data)) < adc_count or num_gates == 0
WaitCondition(n, adc_count) == n < adc_count \/ n = 0

PollTest(t) ==
    /\ pc[t] = "poll"
    /\ IF unrolled_seq = NoneUnrolled
          THEN Raise(t, "AttributeError")
          ELSE Goto(t, IF WaitCondition(Len(rx_data), unrolled_seq.adc_count)
                          THEN "sleep" ELSE AfterWait(Len(rx_data)),
                    [frame[t] EXCEPT !.num_gates = Len(rx_data)])
    /\ UNCHANGED <<obj_vars, call, glob_vars, ctrl_vars, data_vars, tx_vars, rx_vars, result, hist_vars>>

\* a timeout check that never fires
TimedOutNever(now, limit) == FALSE

\* if (time.time() - time_start) > timeout
TimedOut(now, limit) == now > limit

\* the loop body: time.sleep(0.01), the timeout check and the count check
PollSleep(t) ==
    /\ pc[t] = "sleep"
    /\ \E d \in SleepTicks :
        LET f == frame[t]
            now == IF f.elapsed + d > f.timeout THEN f.timeout + 1 ELSE f.elapsed + d
        IN  IF TimedOut(now, f.timeout)
               THEN Goto(t, AfterWait(f.num_gates),
                         [f EXCEPT !.elapsed = now, !.warned = TRUE])
               ELSE Goto(t, IF unrolled_seq # NoneUnrolled
                               /\ f.num_gates >= unrolled_seq.adc_count
                               /\ f.num_gates > 0
                            THEN AfterWait(f.num_gates) ELSE "poll",
                         [f EXCEPT !.elapsed = now])
    /\ UNCHANGED <<obj_vars, call, glob_vars, ctrl_vars, data_vars, tx_vars, rx_vars, result, hist_vars>>

\* self.post_processing(glob.parameter): readout_sizes = [... for data in rx_data]
PPReadSizes(t) ==
    /\ pc[t] = "pp_sizes"
    /\ Goto(t, "pp_group", [frame[t] EXCEPT !.pp_param = parameter, !.pp_sizes = rx_data])
    /\ UNCHANGED <<obj_vars, call, glob_vars, ctrl_vars, data_vars, tx_vars, rx_vars, result, hist_vars>>

\* post_processing from "for data in self.rx_card.rx_data" to its end
PPProcess(t) ==
    /\ pc[t] = "pp_group"
    /\ LET pp == post_processing(frame[t].pp_sizes, rx_data, unproc, raw,
                                 frame[t].pp_param.decimation)
       IN  /\ unproc' = pp.unproc
           /\ raw' = pp.raw
           /\ IF pp.err = "none"
                 THEN Goto(t, "tx_stop",
                           [frame[t] EXCEPT !.pp_param = NoneParam, !.pp_sizes = <<>>])
                 ELSE Raise(t, pp.err)
    /\ UNCHANGED <<obj_vars, call, glob_vars, ctrl_vars, tx_vars, rx_vars, result, hist_vars>>

\* self.tx_card.stop_operation()
TxStop(t) ==
    /\ pc[t] = "tx_stop"
    /\ tx_running' = FALSE
    /\ avg_calls' = [avg_calls EXCEPT ![t] = @ \cup {"tx_stop"}]
    /\ Goto(t, "rx_stop", frame[t])
    /\ UNCHANGED <<obj_vars, call, glob_vars, ctrl_vars, data_vars, tx_offsets, tx_seq, rx_vars, result,
                   entry, unrolls>>

\* self.rx_card.stop_operation()
RxStop(t) ==
    /\ pc[t] = "rx_stop"
    /\ rx_running' = FALSE
    /\ avg_calls' = [avg_calls EXCEPT ![t] = @ \cup {"rx_stop"}]
    /\ Goto(t, "delay", frame[t])
    /\ UNCHANGED <<obj_vars, call, glob_vars, ctrl_vars, data_vars, tx_vars, rx_data, result, entry, unrolls>>

\* time.sleep(glob.parameter.averaging_delay) and the next iteration of the for loop
NextAverage(t) ==
    /\ pc[t] = "delay"
    /\ IF frame[t].k + 1 < frame[t].navg
          THEN /\ avg_calls' = [avg_calls EXCEPT ![t] = {}]
               /\ Goto(t, "rx_start", [frame[t] EXCEPT !.k = @ + 1])
          ELSE /\ UNCHANGED avg_calls
               /\ Goto(t, "reset", [frame[t] EXCEPT !.k = @ + 1])
    /\ UNCHANGED <<obj_vars, call, glob_vars, ctrl_vars, data_vars, tx_vars, rx_vars, result, entry, unrolls>>

\* a run that goes on to the check of the averages without resetting the offsets
ResetOffsetsOmitted(t) ==
    /\ pc[t] = "reset"
    /\ Goto(t, "check", frame[t])
    /\ UNCHANGED <<obj_vars, call, glob_vars, ctrl_vars, data_vars, tx_vars, rx_vars, result, hist_vars>>

\* self.tx_card.set_gradient_offsets(Dimensions(x=0, y=0, z=0), ...)
ResetOffsets(t) ==
    /\ pc[t] = "reset"
    /\ tx_offsets' = 0
    /\ Goto(t, "check", frame[t])
    /\ UNCHANGED <<obj_vars, call, glob_vars, ctrl_vars, data_vars, tx_running, tx_seq, rx_vars, result,
                   hist_vars>>

\* the check the source keeps as a comment: len(self._raw) != parameter.num_averages
BucketCountCheck(r, n) == Len(r) = n

\* all(gate.shape[0] == glob.parameter.num_averages for gate in self._raw)
AllAverages(r, n) == \A j \in 1..Len(r) : r[j].rows = n

\* the check of the averages after the loop
PostCheck(t) ==
    /\ pc[t] = "check"
    /\ IF AllAverages(raw, parameter.num_averages)
          THEN Goto(t, "return", frame[t])
          ELSE Raise(t, "MissingAverages")
    /\ UNCHANGED <<obj_vars, call, glob_vars, ctrl_vars, data_vars, tx_vars, rx_vars, result, hist_vars>>

\* return AcquisitionData(...)
ReturnData(t) ==
    /\ pc[t] = "return"
    /\ result' = [result EXCEPT ![t] =
                    [raw |-> raw, unproc |-> unproc, decimation |-> parameter.decimation,
                     acquisition_parameters |-> parameter]]
    /\ pc' = [pc EXCEPT ![t] = "ended"]
    /\ outcome' = [outcome EXCEPT ![t] = "data"]
    /\ frame' = [frame EXCEPT ![t] = NoFrame]
    /\ UNCHANGED <<obj_vars, call, glob_vars, ctrl_vars, data_vars, tx_vars, rx_vars, hist_vars>>

\* the caller has the result or the exception of run and may call again
CallReturns(t) ==
    /\ pc[t] = "ended"
    /\ pc' = [pc EXCEPT ![t] = "idle"]
    /\ outcome' = [outcome EXCEPT ![t] = "none"]
    /\ result' = [result EXCEPT ![t] = NoneResult]
    /\ entry' = [entry EXCEPT ![t] = NoEntry]
    /\ unrolls' = [unrolls EXCEPT ![t] = 0]
    /\ avg_calls' = [avg_calls EXCEPT ![t] = {}]
    /\ UNCHANGED <<obj_vars, call, glob_vars, ctrl_vars, data_vars, tx_vars, rx_vars, frame>>

\* one step of run by thread t
RunStep(t) ==
    \/ RunEnter(t)
    \/ HashCheck(t)
    \/ Rehash(t)
    \/ Unroll(t)
    \/ Begin(t)
    \/ ForAverages(t)
    \/ RxStart(t)
    \/ TxStart(t)
    \/ PollTest(t)
    \/ PollSleep(t)
    \/ PPReadSizes(t)
    \/ PPProcess(t)
    \/ TxStop(t)
    \/ RxStop(t)
    \/ NextAverage(t)
    \/ ResetOffsets(t)
    \/ PostCheck(t)
    \/ ReturnData(t)

(***************************************************************************)
(* Calls of single functions on inputs of their own                         *)
(***************************************************************************)
\* the rx_data lists handed to the grouping
GateLists == UNION {[1..n -> ReadoutLens] : n \in 0..MaxArrivals}

\* post_processing up to gate_lengths, on an rx_data that does not change meanwhile
GroupGates ==
    /\ call = NoCall
    /\ \E data \in GateLists :
        call' = [fn |-> "grouped_gates", data |-> data, groups |-> grouped_gates(data, data)]
    /\ UNCHANGED <<obj_vars, ctl_vars>>

(***************************************************************************)
(* SequenceProvider.unroll_sequence on 16-bit samples.                     *)
(* Voltages are whole millivolts, a Dimensions triple is <<x, y, z>>, a     *)
(* complex number is <<re, im>>, a phase offset is a number of quarter      *)
(* turns, and a block duration is a number of tenths of the dwell time.     *)
(***************************************************************************)
\* np.iinfo(np.int16).max
INT16_MAX == 32767

\* the samples of a block that carries events
BlockSamples == 3

\* 1 / spcm_dwell_time, in Hz; phases are counted in turns / SpcmFreq
SpcmFreq == 20000000

\* a frequency given in MHz, in Hz
Hertz(f) == f * 1000000

\* block.block_duration in tenths of the dwell time: of a block with events, and
\* of a block without
EventBlockDuration == 10 * BlockSamples
DelayBlockDurations == {25, 30, 35}

\* int(x) in place of round(x)
Truncated(d) == d \div 10

\* round(x) of Python for x = d / 10: to the nearest integer, a half to the even one
Round(d) ==
    LET q == d \div 10
        r == d % 10
    IN  IF r < 5 THEN q
        ELSE IF r > 5 THEN q + 1
        ELSE IF q % 2 = 0 THEN q ELSE q + 1

\* output_limits as given to the provider: none, three channels only, all four
OutputLimits == <<200, 100, 80, 60>>
LimitChoices == {<<>>, SubSeq(OutputLimits, 1, 3), OutputLimits}

\* grad_offset: at most one axis carries an offset
OffsetValues == {-120, -20, 0, 20, 120}
GradOffsetChoices ==
    {[a \in 1..3 |-> IF a = ax THEN v ELSE 0] : ax \in 1..3, v \in OffsetValues}

\* the number of block events of the sequence
BlockCounts == 0..MaxBlocks

\* RF events: envelope samples (mV), phase_offset (quarter turns), b1_scaling, delay
\* and ringdown (samples), the samples of the shape, freq_offset (Hz)
RfSignals ==
    { << <<100, 0>>, <<150, 0>> >>,
      << <<-300, 0>>, <<100, 0>> >>,
      << <<300, 0>>, <<100, 0>> >>,
      << <<0, -300>>, <<0, 100>> >> }
RfEvents ==
    [signal : RfSignals, phase_offset : 0..3, b1_scaling : {1}, delay : {0},
     ringdown : {0}, num_samples : {BlockSamples - 1}, freq_offset : {0}]
        \cup [signal : {<< <<100, 0>>, <<150, 0>> >>}, phase_offset : {0}, b1_scaling : {1},
              delay : {1}, ringdown : {0}, num_samples : {BlockSamples - 1, BlockSamples},
              freq_offset : {0}]

\* ADC events: the gate delay and the gate length (samples)
AdcEvents == [delay : {1}, adc_len : {BlockSamples - 1, BlockSamples}]

\* gradient events: axis, delay (samples) and the scaled waveform (mV per sample);
\* a trapezoid is its flat amplitude
GradWaves == { <<60>>, <<-60>>, <<150>>, <<-150>>, <<20, 60>>, <<-20, -90>> }
GradEvents ==
    [axis : 1..3, delay : {1}, wave : GradWaves]
        \cup [axis : {1}, delay : {BlockSamples - 1}, wave : {<<20, 60>>}]

\* the slice-selection gradients played with an RF event
SliceGrads == {g \in GradEvents : g.axis = 3 /\ Len(g.wave) = 1 /\ g.delay = 1}

\* an event a block does not have
NoEvent == [none |-> TRUE]

\* the blocks of a sequence: an RF event with an optional slice-selection gradient,
\* or an optional ADC event with an optional gradient
EventBlocks ==
    [rf : RfEvents, adc : {NoEvent}, grad : SliceGrads \cup {NoEvent},
     block_duration : {EventBlockDuration}]
        \cup [rf : {NoEvent}, adc : AdcEvents, grad : GradEvents \cup {NoEvent},
              block_duration : {EventBlockDuration}]
        \cup [rf : {NoEvent}, adc : {NoEvent}, grad : GradEvents,
              block_duration : {EventBlockDuration}]
DelayBlocks ==
    [rf : {NoEvent}, adc : {NoEvent}, grad : {NoEvent}, block_duration : DelayBlockDurations]
Blocks == EventBlocks \cup DelayBlocks

\* what np.int16(x) leaves for a float x outside the int16 range
Overflows == {"wrap", "min"}

\* the quotient rounded toward zero, for b > 0
TruncDiv(a, b) == IF a >= 0 THEN a \div b ELSE -((-a) \div b)

\* the int16 that has the low 16 bits of x
Wrap16(x) == ((x + 32768) % 65536) - 32768

\* an int16 viewed as uint16, and back
ToU16(a) == IF a < 0 THEN a + 65536 ELSE a
ToI16(u) == IF u >= 32768 THEN u - 65536 ELSE u

\* np.int16(x) of the float x whose integer part is v
CastInt16(v, ub) ==
    IF v >= -32768 /\ v <= INT16_MAX THEN v
    ELSE IF ub = "wrap" THEN Wrap16(v) ELSE -32768

\* np.abs
Abs(x) == IF x < 0 THEN -x ELSE x

\* complex arithmetic
CMul(z, w) == <<z[1] * w[1] - z[2] * w[2], z[1] * w[2] + z[2] * w[1]>>
AbsSq(z) == z[1] * z[1] + z[2] * z[2]

\* np.exp(1j * block.phase_offset)
PhaseFactor(p) ==
    CASE p = 0 -> <<1, 0>> [] p = 1 -> <<0, 1>> [] p = 2 -> <<-1, 0>> [] p = 3 -> <<0, -1>>

\* the order numpy gives complex numbers: by real part, then by imaginary part
CGreater(z, w) == z[1] > w[1] \/ (z[1] = w[1] /\ z[2] > w[2])

\* np.amax of a complex array
RECURSIVE CAmax(_)
CAmax(zs) ==
    IF Len(zs) = 1 THEN zs[1]
    ELSE LET m == CAmax(SubSeq(zs, 1, Len(zs) - 1))
         IN  IF CGreater(zs[Len(zs)], m) THEN zs[Len(zs)] ELSE m

\* np.amax of a real array
RECURSIVE Amax(_)
Amax(xs) ==
    IF Len(xs) = 1 THEN xs[1]
    ELSE LET m == Amax(SubSeq(xs, 1, Len(xs) - 1))
         IN  IF xs[Len(xs)] > m THEN xs[Len(xs)] ELSE m

\* block.signal * phase_offset * b1_scaling * rf_to_mvolt, still to be divided by
\* output_limits[0]
EnvelopeMilliVolt(rf) ==
    [m \in 1..Len(rf.signal) |->
        LET z == CMul(rf.signal[m], PhaseFactor(rf.phase_offset))
        IN  <<z[1] * rf.b1_scaling, z[2] * rf.b1_scaling>>]

\* calculate_rf: np.abs(np.amax(envelope_scaled)) > 1
RfCheck(rf, limits) ==
    IF AbsSq(CAmax(EnvelopeMilliVolt(rf))) > limits[1] * limits[1]
    THEN "ValueError" ELSE "none"

\* calculate_rf: the error it raises on a block of n samples; the magnitude check
\* comes before idx_signal_end > unroll_arr.size
RfError(rf, limits, n) ==
    IF RfCheck(rf, limits) # "none" THEN RfCheck(rf, limits)
    ELSE IF rf.delay + rf.num_samples > n THEN "IndexError"
    ELSE "none"

\* calculate_rf: the phase of carrier[0], in turns / SpcmFreq:
\* 2 pi ((larmor_freq + freq_offset) * carrier_time[0] + carrier_phase_offset) with
\* carrier_time[0] = 0 and carrier_phase_offset = carrier_phase_samples * dwell
CarrierPhase(rf, larmor, sample_count, rf_start) ==
    ((Hertz(larmor) + rf.freq_offset) * 0 + (sample_count + rf.delay - rf_start)) % SpcmFreq

\* calculate_rf: unblanking[samples_delay : -(num_samples_ringdown + 1)] = 1
Unblanking(rf, n) ==
    [m \in 1..n |-> IF m > rf.delay /\ m <= n - (rf.ringdown + 1) THEN 1 ELSE 0]

\* add_adc_gate: gate[delay : delay + adc_len] = 1; a slice that runs past the end
\* of the array is cut at the end
AdcGate(adc, n) ==
    [m \in 1..n |-> IF m > adc.delay /\ m <= adc.delay + adc.adc_len THEN 1 ELSE 0]

\* ref_signal > 0 for ref_signal = exp(2 pi i p / SpcmFreq), in numpy's order of
\* complex numbers: real part positive, or real part zero and imaginary part positive
ComplexPositive(p) == 4 * p < SpcmFreq \/ 4 * p > 3 * SpcmFreq \/ 4 * p = SpcmFreq

\* add_adc_gate: clk_ref[ref_signal > 0] = 1 with
\* ref_signal = exp(2 pi i (larmor_freq * ref_time + offset)), offset = sample_count * dwell
Reference(larmor, sample_count, n) ==
    [m \in 1..n |->
        IF ComplexPositive((Hertz(larmor) * (m - 1) + sample_count) % SpcmFreq) THEN 1 ELSE 0]

\* a side array no event has written
Zeros(n) == [m \in 1..n |-> 0]

\* a check of the offsets that forgets their sign
CheckOffsetsSigned(limits, off) ==
    IF Len(limits) = 0 THEN "ValueError"
    ELSE IF Len(limits) < 2 THEN "IndexError"
    ELSE IF off[1] > limits[2] THEN "ValueError"
    ELSE IF Len(limits) < 3 THEN "IndexError"
    ELSE IF off[2] > limits[3] THEN "ValueError"
    ELSE IF Len(limits) < 4 THEN "IndexError"
    ELSE IF off[3] > limits[4] THEN "ValueError"
    ELSE "none"

\* _check_offsets: the error it raises
check_offsets(limits, off) ==
    IF Len(limits) = 0 THEN "ValueError"
    ELSE IF Len(limits) < 2 THEN "IndexError"
    ELSE IF Abs(off[1]) > limits[2] THEN "ValueError"
    ELSE IF Len(limits) < 3 THEN "IndexError"
    ELSE IF Abs(off[2]) > limits[3] THEN "ValueError"
    ELSE IF Len(limits) < 4 THEN "IndexError"
    ELSE IF Abs(off[3]) > limits[4] THEN "ValueError"
    ELSE "none"

\* the checks at the head of unroll_sequence: the error they raise
UnrollPrecheck(larmor, n, limits, off) ==
    IF larmor > LarmorLimit THEN "ValueError"
    ELSE IF ~(n > 0) THEN "ValueError"
    ELSE check_offsets(limits, off)

\* np.int16((grad_offset / output_limit) * INT16_MAX)
OffsetInt16(o, limit) == TruncDiv(o * INT16_MAX, limit)

\* if grad_offset.x > 0: _seq[k][1::4] += ...: the gradient slots of a fresh block
DcSlots(limits, off, n) ==
    [a \in 1..3 |->
        [m \in 1..n |-> IF off[a] > 0 THEN OffsetInt16(off[a], limits[a + 1]) ELSE 0]]

\* calculate_gradient: the error it raises; offset = unroll_arr[0] / INT16_MAX * limit
\* and the test np.amax(waveform) + offset > limit, both sides times INT16_MAX
GradError(g, arr, limits) ==
    LET limit == limits[g.axis + 1]
    IN  IF Amax(g.wave) * INT16_MAX + arr[1] * limit > limit * INT16_MAX THEN "ValueError"
        ELSE IF g.delay + Len(g.wave) > Len(arr) THEN "IndexError"
        ELSE "none"

\* calculate_gradient: unroll_arr[samples_delay:index_end] += gradient, in int16
GradAdd(g, arr, limits, ub) ==
    LET limit == limits[g.axis + 1]
    IN  [m \in 1..Len(arr) |->
            IF m > g.delay /\ m <= g.delay + Len(g.wave)
            THEN Wrap16(arr[m] + CastInt16(TruncDiv(g.wave[m - g.delay] * INT16_MAX, limit), ub))
            ELSE arr[m]]

\* a packing that shifts the int16 sample without viewing it as uint16
PackSigned(a, bit) ==
    LET shifted == IF a >= 0 THEN a \div 2 ELSE -((1 - a) \div 2)
    IN  IF bit = 1 /\ shifted >= 0 THEN shifted - 32768 ELSE shifted

\* _seq.view(np.uint16) >> 1 | (line << 15), stored back into the int16 array
Pack(a, bit) ==
    LET shifted == ToU16(a) \div 2
        line == Wrap16(bit * 32768)
    IN  IF line < 0 THEN shifted - 32768 ELSE shifted

\* one iteration of the loop over the blocks: the error raised and the arrays left
UnrollBlockResult(blk, limits, off, ub, larmor, sample_count, rf_start) ==
    LET n == Round(blk.block_duration)
        dc == DcSlots(limits, off, n)
        rf_err == IF blk.rf = NoEvent THEN "none" ELSE RfError(blk.rf, limits, n)
        unb == IF blk.rf = NoEvent THEN Zeros(n) ELSE Unblanking(blk.rf, n)
        gate == IF blk.adc = NoEvent THEN Zeros(n) ELSE AdcGate(blk.adc, n)
        ref == IF blk.adc = NoEvent THEN Zeros(n) ELSE Reference(larmor, sample_count, n)
        g_err == IF blk.grad = NoEvent THEN "none"
                 ELSE GradError(blk.grad, dc[blk.grad.axis], limits)
        analog == [a \in 1..3 |->
                      IF blk.grad # NoEvent /\ blk.grad.axis = a /\ g_err = "none"
                      THEN GradAdd(blk.grad, dc[a], limits, ub) ELSE dc[a]]
        lines == <<gate, ref, unb>>
    IN  [err |-> IF rf_err # "none" THEN rf_err ELSE g_err,
         n_samples |-> n,
         seq_len |-> 4 * n,
         rf_phase |-> IF blk.rf = NoEvent THEN -1
                      ELSE CarrierPhase(blk.rf, larmor, sample_count, rf_start),
         dc |-> dc, analog |-> analog, adc |-> gate, ref |-> ref, unb |-> unb,
         packed |-> [a \in 1..3 |-> [m \in 1..n |-> Pack(analog[a][m], lines[a][m])]]]

\* unroll_sequence is called
UnrollEnter ==
    /\ call = NoCall
    /\ \E larmor \in Larmors, limits \in LimitChoices, off \in GradOffsetChoices,
          n \in BlockCounts :
        call' = [fn |-> "unroll_sequence", pc |-> "check", larmor |-> larmor,
                 limits |-> limits, off |-> off, n |-> n, k |-> 0, adc_count |-> 0,
                 sample_count |-> 0, rf_start |-> -1, err |-> "none"]
    /\ UNCHANGED <<obj_vars, ctl_vars>>

\* the checks of the larmor frequency, the block events and the offsets
UnrollCheck ==
    /\ call.fn = "unroll_sequence"
    /\ call.pc = "check"
    /\ LET err == UnrollPrecheck(call.larmor, call.n, call.limits, call.off)
       IN  call' = [call EXCEPT !.pc = IF err = "none" THEN "loop" ELSE "failed",
                                !.err = err]
    /\ UNCHANGED <<obj_vars, ctl_vars>>

\* the fields of call that hold the block unrolled last
BlockFields ==
    {"blk", "at_sample", "n_samples", "seq_len", "rf_phase", "dc", "analog", "adc", "ref", "unb", "packed"}

\* one iteration of for k, (n_samples, block) in enumerate(...)
UnrollBlock ==
    /\ call.fn = "unroll_sequence"
    /\ call.pc = "loop"
    /\ call.k < call.n
    /\ \E blk \in Blocks, ub \in Overflows :
        \E rf_start \in {IF blk.rf # NoEvent /\ call.rf_start = -1 THEN call.sample_count
                          ELSE call.rf_start} :
        \E r \in {UnrollBlockResult(blk, call.limits, call.off, ub, call.larmor,
                                    call.sample_count, rf_start)} :
        LET head == [f \in (DOMAIN call) \ BlockFields |-> call[f]]
        IN  call' = IF r.err # "none"
                    THEN [head EXCEPT !.pc = "failed", !.err = r.err, !.rf_start = rf_start]
                    ELSE [f \in (DOMAIN head) \cup BlockFields |->
                            CASE f = "blk" -> blk
                              [] f = "at_sample" -> call.sample_count
                              [] f = "n_samples" -> r.n_samples
                              [] f = "seq_len" -> r.seq_len
                              [] f = "rf_phase" -> r.rf_phase
                              [] f = "sample_count" -> call.sample_count + r.n_samples
                              [] f = "rf_start" -> rf_start
                              [] f = "dc" -> r.dc
                              [] f = "analog" -> r.analog
                              [] f = "adc" -> r.adc
                              [] f = "ref" -> r.ref
                              [] f = "unb" -> r.unb
                              [] f = "packed" -> r.packed
                              [] f = "k" -> call.k + 1
                              [] f = "adc_count" ->
                                    call.adc_count + (IF blk.adc = NoEvent THEN 0 ELSE 1)
                              [] OTHER -> head[f]]
    /\ UNCHANGED <<obj_vars, ctl_vars>>

\* return UnrolledSequence(...)
UnrollReturn ==
    /\ call.fn = "unroll_sequence"
    /\ call.pc = "loop"
    /\ call.k = call.n
    /\ call' = [call EXCEPT !.pc = "done"]
    /\ UNCHANGED <<obj_vars, ctl_vars>>

\* the function under study has returned or raised
(***************************************************************************)
(* post_processing on one sample of each coil: reference extraction and     *)
(* scaling (lines 321-333).  A gate is <<w_0, ..., w_last>>, one int16 word *)
(* per coil.                                                                *)
(***************************************************************************)
\* number of receive coils of the gate that is unpacked
UnpackCoils == 2

\* int16 words of coil 0 and of the other coils
CoilZeroWords == {0, 1, -1, 2, 16383, 16384, -16384, -16385, 32767, -32768, 12345, -12345}
CoilWords == {0, 5, -7, 32767, -32768}

\* self.rx_card.rx_scaling[:num_channels], a whole factor per channel
Scalings == [1..UnpackCoils -> {1, 3}]

\* a left shift that leaves the 16-bit word
ShiftUnbounded(w) == 2 * w

\* data[0, ...] << 1 on int16
ShiftLeft16(w) == ToI16((ToU16(w) * 2) % 65536)

\* (data[0, ...].astype(np.uint16) >> 15).astype(float)
ReferenceBit(w) == ToU16(w) \div 32768

\* the body of the loop over gate_lengths up to the concatenation with _ref
Unpacked(gate, scaling) ==
    LET ref == ReferenceBit(gate[1])
        words == [c \in 1..Len(gate) |-> IF c = 1 THEN ShiftLeft16(gate[c]) ELSE gate[c]]
        scaled == [c \in 1..Len(gate) |-> words[c] * scaling[c]]
    IN  [ref |-> ref, words |-> words, data |-> Append(scaled, ref)]

UnpackGate ==
    /\ call = NoCall
    /\ \E w0 \in CoilZeroWords, w1 \in CoilWords, scaling \in Scalings :
        \E r \in {Unpacked(<<w0, w1>>, scaling)} :
            call' = [fn |-> "unpack", gate |-> <<w0, w1>>, scaling |-> scaling,
                     ref |-> r.ref, words |-> r.words, data |-> r.data]
    /\ UNCHANGED <<obj_vars, ctl_vars>>

CallDone ==
    /\ \/ call.fn = "grouped_gates"
       \/ call.fn = "unpack"
       \/ call.fn = "unroll_sequence" /\ call.pc \in {"done", "failed"}
    /\ call' = NoCall
    /\ UNCHANGED <<obj_vars, ctl_vars>>

(***************************************************************************)
(* AcquisitionData: add_info, add_data and save.  The content of            *)
(* meta["info"] and of _additional_data is the number of updates applied    *)
(* to it; a folder records which content each of its files holds.           *)
(***************************************************************************)
\* os.makedirs never raises for an existing folder
MakedirsAlwaysSucceeds(folder, overwrite) == FALSE

\* os.makedirs(acq_folder_path, exist_ok=overwrite) raises FileExistsError
MakedirsFails(folder, overwrite) == folder.exists /\ ~overwrite

\* the folder after the writes of save: meta.json, sequence.seq (unless
\* sequence.write raised), the raw data, the additional data if there is any,
\* the unprocessed data if asked for; a file is named by the number of the save
\* that wrote it last (0: no such file), meta.json and the additional data also
\* by the content they hold
Written(folder, obj, seq_ok, save_unprocessed) ==
    LET old == IF folder.exists THEN folder
               ELSE [exists |-> TRUE, meta |-> 0, meta_by |-> 0, seq_by |-> 0, raw_by |-> 0,
                     extra |-> 0, extra_by |-> 0, unproc_by |-> 0]
        n == obj.saves + 1
    IN  [exists |-> TRUE,
         meta |-> obj.info,
         meta_by |-> n,
         seq_by |-> IF seq_ok THEN n ELSE old.seq_by,
         raw_by |-> n,
         extra |-> IF obj.extra > 0 THEN obj.extra ELSE old.extra,
         extra_by |-> IF obj.extra > 0 THEN n ELSE old.extra_by,
         unproc_by |-> IF save_unprocessed THEN n ELSE old.unproc_by]

\* self.meta["info"].update(info)
AddInfo ==
    /\ acq.info < MaxEdits
    /\ acq' = [acq EXCEPT !.info = @ + 1]
    /\ UNCHANGED <<files, sync, call, ctl_vars>>

\* self._additional_data.update(data)
AddData ==
    /\ acq.extra < MaxEdits
    /\ acq' = [acq EXCEPT !.extra = @ + 1]
    /\ UNCHANGED <<files, sync, call, ctl_vars>>

\* save(user_path, save_unprocessed, overwrite)
Save ==
    /\ acq.saves < MaxSaves
    /\ \E base \in BasePaths, save_unprocessed \in BOOLEAN, overwrite \in BOOLEAN,
          seq_ok \in BOOLEAN :
        IF MakedirsFails(files[base], overwrite)
        THEN /\ acq' = [acq EXCEPT !.saves = @ + 1,
                                    !.last = [called |-> TRUE, base |-> base,
                                              overwrite |-> overwrite, written |-> FALSE]]
             /\ UNCHANGED files
        ELSE /\ acq' = [acq EXCEPT !.saves = @ + 1,
                                    !.last = [called |-> TRUE, base |-> base,
                                              overwrite |-> overwrite, written |-> TRUE]]
             /\ files' = [files EXCEPT
                             ![base] = Written(files[base], acq, seq_ok, save_unprocessed)]
    /\ UNCHANGED <<sync, call, ctl_vars>>

(***************************************************************************)
(* SyncCard: start_operation and stop_operation                             *)
(***************************************************************************)
\* what the driver answers to a command
DriverAnswers == {"ERR_OK", "ERR_FAILED"}

\* spcm_dwSetParam_i32(card, SPC_M2CMD, M2CMD_CARD_START | M2CMD_CARD_ENABLETRIGGER)
SyncStart ==
    /\ \E error \in DriverAnswers :
        sync' = [sync EXCEPT !.started = IF error = "ERR_OK" THEN TRUE ELSE @,
                             !.last = "start_operation"]
    /\ UNCHANGED <<acq, files, call, ctl_vars>>

\* stop_operation: the card-stop command is sent only if self.worker is not None
SyncStop ==
    /\ \E error \in DriverAnswers :
        IF sync.worker # "None"
        THEN sync' = [sync EXCEPT !.started = IF error = "ERR_OK" THEN FALSE ELSE @,
                                  !.worker = "None",
                                  !.last = "stop_operation"]
        ELSE sync' = [sync EXCEPT !.last = "stop_operation"]
    /\ UNCHANGED <<acq, files, call, ctl_vars>>

(***************************************************************************)
(* Properties                                                              *)
(***************************************************************************)
\* thread t is inside the polling loop of an average
InWait(t) == pc[t] \in {"poll", "sleep"}

\* thread t is between the programming of the gradient offsets and their reset
OffsetsProgrammed(t) ==
    pc[t] \in {"for", "rx_start", "tx_start", "poll", "sleep", "pp_sizes", "pp_group",
               "tx_stop", "rx_stop", "delay", "reset"}

\* C1: in every average of run, rx_card.start_operation has been called before
\* tx_card.start_operation is called, and TX never replays while the RX capture of
\* that average has not been started.
C1_RxStartsBeforeTx ==
    \A t \in Threads :
        /\ "tx_start" \in avg_calls[t] => "rx_start" \in avg_calls[t]
        /\ pc[t] = "tx_start" => "rx_start" \in avg_calls[t] /\ rx_running
        /\ tx_running => rx_running

\* C1 (reached): the second average of a run polls with both cards started
C1_Witness ==
    /\ pc[1] = "poll"
    /\ frame[1].k = 1
    /\ avg_calls[1] = {"rx_start", "tx_start"}
    /\ tx_running /\ rx_running

\* C2 (as stated): a run whose cards were both started in an average has called both
\* stop operations of that average when the run is over; no average leaves a card
\* started.
C2_EveryAverageStops ==
    \A t \in Threads :
        (pc[t] = "ended" /\ outcome[t] # "DeviceError"
            /\ {"rx_start", "tx_start"} \subseteq avg_calls[t])
        => ({"tx_stop", "rx_stop"} \subseteq avg_calls[t] /\ ~tx_running /\ ~rx_running)

\* C3 (as stated): a run that aborts with an error after the gradient offsets were
\* programmed or the cards were started has stopped both cards and has restored
\* the gradient offsets to zero.
C3_AbortStopsAndResets ==
    \A t \in Threads :
        (pc[t] = "ended"
            /\ outcome[t] \in {"DeviceError", "KeyError", "ValueError", "IndexError"})
        => (~tx_running /\ ~rx_running /\ tx_offsets = 0)

\* C4 (amended): whatever the RX worker does, the wait of each average ends. The
\* controller goes on polling exactly while the gate count it read is below
\* adc_count or is zero, it leaves the loop after a sleep exactly when the elapsed
\* time exceeds timeout = 5 + duration, and every run that has started ends.
C4_WaitEnds ==
    /\ [][(pc[1] = "poll" /\ pc'[1] # "poll")
            => /\ (pc'[1] = "sleep") <=>
                      (Len(rx_data) < unrolled_seq.adc_count \/ Len(rx_data) = 0)
               /\ pc'[1] \in {"sleep", "pp_sizes", "tx_stop"}]_vars
    /\ [][(pc[1] = "sleep" /\ pc'[1] # "sleep")
            => /\ (pc'[1] # "poll") <=>
                      (frame'[1].elapsed > TimeoutSeconds + unrolled_seq.duration)
               /\ frame'[1].elapsed > frame[1].elapsed
               /\ pc'[1] \in {"poll", "pp_sizes", "tx_stop"}]_vars
    /\ InWait(1) ~> ~InWait(1)
    /\ (pc[1] \notin {"idle", "ended"}) ~> (pc[1] = "ended")

\* C4 (reached): the wait of an average ended by timeout without any gate
C4_Witness ==
    /\ pc[1] = "tx_stop"
    /\ frame[1].warned
    /\ frame[1].num_gates = 0
    /\ rx_data = <<>>

\* C4 (as stated): the controller is in the body of the polling loop only while the
\* gate count it read is below adc_count.
C4_LeavesAtAdcCount ==
    \A t \in Threads : pc[t] = "sleep" => frame[t].num_gates < unrolled_seq.adc_count

\* C5 (as stated): a run of one average whose wait timed out with at least one but
\* fewer than adc_count gates, and during which no parameter was updated, ends by
\* returning an AcquisitionData.
C5_TimeoutReturnsData ==
    [][\A t \in Threads :
          (/\ frame[t].warned
           /\ frame[t].navg = 1
           /\ frame[t].num_gates >= 1
           /\ frame[t].num_gates < unrolled_seq.adc_count
           /\ updates = entry[t].upd
           /\ pc[t] # "ended"
           /\ pc'[t] = "ended")
          => outcome'[t] = "data"]_vars

\* C6 (as stated): a run that returns an AcquisitionData has at least one bucket of
\* raw data; with no gate in any average the run raises instead.
C6_EmptyRunRaises ==
    \A t \in Threads : outcome[t] = "data" => result[t].raw # <<>>

\* C7: the post-run check lets run go on to return its AcquisitionData exactly when
\* every bucket of raw has num_averages rows, and otherwise run ends with the
\* missing-average error; run returns by no other way.
C7_ReturnsOnlyFullBuckets ==
    [][\A t \in Threads :
          /\ (pc[t] = "check" /\ pc'[t] # "check")
                => IF \A j \in 1..Len(raw) : raw[j].rows = parameter.num_averages
                      THEN pc'[t] = "return"
                      ELSE pc'[t] = "ended" /\ outcome'[t] = "MissingAverages"
          /\ (pc[t] # "return" /\ pc'[t] = "return") => pc[t] = "check"
          /\ (outcome[t] # "data" /\ outcome'[t] = "data") => pc[t] = "return"]_vars

\* C7 (reached): a run ended with the missing-average error on a bucket that has
\* fewer rows than averages
C7_Witness ==
    /\ pc[1] = "ended"
    /\ outcome[1] = "MissingAverages"
    /\ Len(raw) > 0
    /\ raw[1].rows < parameter.num_averages

\* C8: a run during which no parameter is updated calls unroll_sequence exactly
\* once if the hash of the global parameters differs from the cached hash at its
\* start and not at all if they are equal, and from then on the cached hash is the
\* hash of the global parameters.
C8_ReunrollIffHashDiffers ==
    \A t \in Threads :
        (/\ pc[t] \notin {"idle", "hash", "rehash", "unroll"}
         /\ outcome[t] \notin {"RuntimeError", "NoSequence"}
         /\ updates = entry[t].upd)
        => /\ unrolls[t] = (IF entry[t].hash # get_hash(entry[t].param) THEN 1 ELSE 0)
           /\ param_hash = get_hash(parameter)

\* C8 (reached): a run after a parameter update unrolled once and returned data
C8_Witness ==
    /\ pc[1] = "ended"
    /\ outcome[1] = "data"
    /\ unrolls[1] = 1
    /\ updates = entry[1].upd
    /\ updates > 0

\* C9 (as stated): every parameter value a run uses comes from the parameters at the
\* start of the run: the number of averages of its loop, the parameters handed to
\* post_processing and the parameters stored in the result.
C9_RunUsesSnapshot ==
    \A t \in Threads :
        /\ frame[t].navg # 0 => frame[t].navg = entry[t].param.num_averages
        /\ frame[t].pp_param # NoneParam => frame[t].pp_param = entry[t].param
        /\ outcome[t] = "data" => result[t].acquisition_parameters = entry[t].param

\* C10 (as stated): no two invocations of run are at the same time between the
\* programming of the gradient offsets and their reset.
C10_OneRunAtATime ==
    \A t1, t2 \in Threads : (OffsetsProgrammed(t1) /\ OffsetsProgrammed(t2)) => t1 = t2

\* C11 (as stated): within an average the controller reads the contents of
\* rx_data (lines 312-317 of post_processing) only after rx_card.stop_operation
\* has been called for that average, so never while the RX card is running.
C11_ContentsReadAfterStop ==
    \A t \in Threads :
        pc[t] \in {"pp_sizes", "pp_group"} => ("rx_stop" \in avg_calls[t] /\ ~rx_running)

\* C12: on a run without error, set_gradient_offsets programs the parameters'
\* gradient_offset before the first start_operation of the run, the programmed
\* offsets keep that value through every average, and the offsets are (0, 0, 0)
\* from the reset on, so when run returns or raises the missing-average error.
C12_OffsetsSetAndReset ==
    [][\A t \in Threads :
          /\ (pc[t] = "begin" /\ pc'[t] = "for")
                => (tx_offsets' = parameter.gradient_offset /\ avg_calls[t] = {}
                    /\ avg_calls'[t] = {})
          /\ (pc[t] # pc'[t] /\ pc'[t] \in {"rx_start", "tx_start"})
                => tx_offsets = entry[t].param.gradient_offset
          /\ (OffsetsProgrammed(t) /\ pc[t] # "reset") => tx_offsets' = tx_offsets
          /\ (pc[t] = "reset" /\ pc'[t] # "reset") => (pc'[t] = "check" /\ tx_offsets' = 0)
          /\ pc[t] \in {"check", "return"} => (tx_offsets = 0 /\ tx_offsets' = 0)
          /\ outcome'[t] \in {"data", "MissingAverages"} => tx_offsets' = 0]_vars

\* a run returned its data with the offsets back at zero after two averages that
\* were played with the offset of the parameters
C12_Witness ==
    /\ outcome[1] = "data"
    /\ entry[1].param.gradient_offset = 1
    /\ entry[1].param.num_averages = 2
    /\ Len(result[1].raw) > 0
    /\ tx_offsets = 0

\* C13: if every average delivers the same G gates, all of one readout length n,
\* the result of run holds exactly one raw bucket of shape (A, n_coils, G, ceil(n/q)):
\* the post-processing of the first average makes the bucket with one row, the
\* post-processing of every later average adds one row to it, and run returns the
\* raw list as it stands after the last average.
C13_OneBucketPerRun ==
    [][\A t \in Threads :
          LET k == frame[t].k
              G == Len(rx_data)
              n == rx_data[1]
              q == frame[t].pp_param.decimation
              B(rows) == [rows |-> rows, coils |-> NumCoils, npe |-> G,
                          nro |-> (n + q - 1) \div q]
          IN  /\ (/\ pc[t] = "pp_group" /\ pc'[t] # "pp_group"
                  /\ G > 0
                  /\ \A i \in 1..G : rx_data[i] = n
                  /\ frame[t].pp_sizes = rx_data
                  /\ IF k = 0 THEN raw = <<>> ELSE raw = <<B(k)>>)
                     => (pc'[t] = "tx_stop" /\ raw' = <<B(k + 1)>>)
              /\ (pc[t] = "return" /\ pc'[t] # "return")
                     => (outcome'[t] = "data" /\ result'[t].raw = raw)]_vars

\* a run of two averages with two gates of eight samples each returned one bucket
\* of shape (2, n_coils, 2, 4)
C13_Witness ==
    /\ outcome[1] = "data"
    /\ result[1].acquisition_parameters.num_averages = 2
    /\ result[1].raw = <<[rows |-> 2, coils |-> NumCoils, npe |-> 2, nro |-> 4]>>

\* C15: run called when the cards are not set up raises RuntimeError, and run
\* called when no sequence has been set raises ValueError; in both cases the call
\* ends at once, with no device operation performed and with the cached sequence,
\* the hash and the accumulated data unchanged.
C15_RunPreconditions ==
    [][\A t \in Threads :
          (pc[t] = "idle" /\ pc'[t] # "idle") =>
              /\ ~is_setup => outcome'[t] = "RuntimeError"
              /\ (is_setup /\ unrolled_seq = NoneUnrolled) => outcome'[t] = "NoSequence"
              /\ (~is_setup \/ unrolled_seq = NoneUnrolled) =>
                    /\ pc'[t] = "ended"
                    /\ avg_calls'[t] = {}
                    /\ UNCHANGED <<tx_vars, rx_vars, ctrl_vars, data_vars>>]_vars

\* a run on cards that are set up ended with the error of the missing sequence,
\* the cards idle and nothing accumulated
C15_Witness ==
    /\ is_setup
    /\ pc[1] = "ended"
    /\ outcome[1] = "NoSequence"
    /\ unrolled_seq = NoneUnrolled
    /\ ~tx_running /\ ~rx_running
    /\ raw = <<>>

\* C14: post_processing groups the gates of rx_data by readout length into one
\* bucket per distinct length; the buckets are in the order of the first occurrence
\* of their length, the gates of a bucket are in arrival order, and every gate is in
\* exactly one bucket, so that the bucket sizes sum to the number of gates.
C14_GroupedByLength ==
    call.fn = "grouped_gates" =>
        LET data == call.data
            g == call.groups
            Slots == {<<j, m>> \in (1..Len(g)) \X (1..Len(data)) : m <= Len(g[j])}
        IN  /\ Len(g) = Cardinality({data[i] : i \in 1..Len(data)})
            /\ \A j \in 1..Len(g) :
                  /\ Len(g[j]) > 0
                  /\ \A m \in 1..Len(g[j]) : g[j][m] \in 1..Len(data)
                  /\ \A m \in 1..Len(g[j]) : data[g[j][m]] = data[g[j][1]]
                  /\ \A m \in 1..(Len(g[j]) - 1) : g[j][m] < g[j][m + 1]
            /\ \A j1, j2 \in 1..Len(g) :
                  j1 < j2 => (g[j1][1] < g[j2][1] /\ data[g[j1][1]] # data[g[j2][1]])
            /\ \A i \in 1..Len(data) :
                  Cardinality({sl \in Slots : g[sl[1]][sl[2]] = i}) = 1
            /\ Cardinality(Slots) = Len(data)

\* three gates of lengths 8, 4, 8 were grouped into the bucket of gates 1 and 3
\* followed by the bucket of gate 2
C14_Witness ==
    /\ call.fn = "grouped_gates"
    /\ call.data = <<8, 4, 8>>
    /\ call.groups = <<<<1, 3>>, <<2>>>>

\* C16: unroll_sequence raises an error and returns no UnrolledSequence, before
\* any block is processed, whenever the larmor frequency is above 10 MHz, the block
\* list is empty, output_limits does not cover all 4 channels, or the magnitude of
\* the gradient offset of some axis exceeds the output limit of its channel.
C16_UnrollPreconditions ==
    [][(call.fn = "unroll_sequence" /\ call' # call) =>
          LET violated ==
                \/ call.larmor > LarmorLimit
                \/ call.n = 0
                \/ Len(call.limits) < 4
                \/ \E a \in 1..3 : (call.off[a] > call.limits[a + 1]
                                    \/ -call.off[a] > call.limits[a + 1])
          IN  /\ (call.pc = "check" /\ violated)
                    => (/\ call'.fn = "unroll_sequence"
                        /\ call'.pc = "failed"
                        /\ call'.err \in {"ValueError", "IndexError"}
                        /\ call'.k = 0
                        /\ "blk" \notin DOMAIN call')
              /\ call.pc = "failed" => call' = NoCall]_vars

\* the unroll of a sequence with blocks, below 10 MHz and with all four limits was
\* refused for a negative x offset beyond the limit, no block processed
C16_Witness ==
    /\ call.fn = "unroll_sequence"
    /\ call.pc = "failed"
    /\ call.larmor <= LarmorLimit /\ call.n > 0 /\ Len(call.limits) = 4
    /\ call.off[1] = -120
    /\ call.err = "ValueError"
    /\ call.k = 0

\* C17 (as stated): unroll_sequence raises for every RF event that has an envelope
\* sample with |signal * exp(i * phase_offset) * rf_scaling| > 1, whatever the
\* phase offset and the signs of the samples, so that the RF event of a block of a
\* successful unroll has all its scaled envelope samples of magnitude at most 1.
C17_RfWithinRange ==
    (/\ call.fn = "unroll_sequence"
     /\ call.pc = "done"
     /\ call.blk.rf # NoEvent)
        => \A m \in 1..Len(call.blk.rf.signal) :
              LET z == CMul(call.blk.rf.signal[m], PhaseFactor(call.blk.rf.phase_offset))
                  b == call.blk.rf.b1_scaling
              IN  (z[1] * z[1] + z[2] * z[2]) * b * b <= call.limits[1] * call.limits[1]

\* C18 (as stated): unroll_sequence raises for every gradient event unless
\* max(|scaled waveform| + |DC offset|) <= output_limits[idx], for amplitudes of
\* either sign, so that in a successful unroll every analog gradient sample is
\* within the limit of its channel and was computed without int16 wrap-around.
C18_GradientWithinLimit ==
    (/\ call.fn = "unroll_sequence"
     /\ call.pc = "done"
     /\ call.blk.grad # NoEvent)
        => LET g == call.blk.grad
               limit == call.limits[g.axis + 1]
               o == call.off[g.axis]
           IN  /\ \A i \in 1..Len(g.wave) :
                     (IF g.wave[i] < 0 THEN -g.wave[i] ELSE g.wave[i])
                        + (IF o < 0 THEN -o ELSE o) <= limit
               /\ \A m \in 1..call.n_samples :
                     /\ call.analog[g.axis][m] <= INT16_MAX
                     /\ call.analog[g.axis][m] >= -INT16_MAX
                     /\ (m > g.delay /\ m <= g.delay + Len(g.wave))
                           => call.analog[g.axis][m] =
                                 call.dc[g.axis][m]
                                    + TruncDiv(g.wave[m - g.delay] * INT16_MAX, limit)

C20_DcOffsetWritten ==
    (call.fn = "unroll_sequence" /\ call.pc \in {"loop", "done"} /\ call.k > 0) =>
        \A a \in 1..3, m \in 1..call.n_samples :
            LET num == call.off[a] * INT16_MAX
                limit == call.limits[a + 1]
            IN  call.dc[a][m] = (IF num >= 0 THEN num \div limit ELSE -((-num) \div limit))

\* C21 (as stated): unroll_sequence raises for every RF, gradient or ADC event
\* whose delay plus length in samples exceeds the samples of its block, so that
\* every event of a block that was unrolled lies entirely inside the block.
C21_EventsInsideBlock ==
    (call.fn = "unroll_sequence" /\ call.pc \in {"loop", "done"} /\ call.k > 0) =>
        /\ call.blk.rf # NoEvent
              => call.blk.rf.delay + call.blk.rf.num_samples <= call.n_samples
        /\ call.blk.grad # NoEvent
              => call.blk.grad.delay + Len(call.blk.grad.wave) <= call.n_samples
        /\ call.blk.adc # NoEvent
              => call.blk.adc.delay + call.blk.adc.adc_len <= call.n_samples

\* C22: for every block of a successful unroll the interleaved array has
\* 4 * round(block_duration / dwell) entries and the ADC-gate, unblanking and
\* reference side arrays have round(block_duration / dwell) entries each; the
\* sample count starts at zero, grows by that length with every block, and is
\* returned as it stands after the last block.
C22_BlockLengths ==
    [][(call'.fn = "unroll_sequence" /\ call' # call) =>
          /\ call'.pc = "check" => call'.sample_count = 0
          /\ (call'.pc = "loop" /\ call'.k > 0) =>
                LET d == call'.blk.block_duration
                    n == call'.n_samples
                IN  /\ 10 * n - d <= 5 /\ d - 10 * n <= 5
                    /\ (10 * n - d = 5 \/ d - 10 * n = 5) => n % 2 = 0
                    /\ call'.seq_len = 4 * n
                    /\ Len(call'.adc) = n /\ Len(call'.unb) = n /\ Len(call'.ref) = n
                    /\ \A a \in 1..3 : Len(call'.packed[a]) = n
                    /\ call'.k = call.k + 1
                    /\ call'.sample_count = call.sample_count + n
          /\ call'.pc = "done" => call'.sample_count = call.sample_count]_vars

\* an unroll returned after a block of 3 samples and a block of 3.5 dwell times,
\* unrolled into 4 samples: 7 samples in all
C22_Witness ==
    /\ call.fn = "unroll_sequence"
    /\ call.pc = "done"
    /\ call.k = 2
    /\ call.blk.block_duration = 35
    /\ call.seq_len = 16
    /\ call.sample_count = 7

\* C23 (as stated): the carrier phase at the first sample of every RF event with
\* freq_offset = 0 is 2 pi f_L t_first modulo 2 pi, with
\* t_first = (sample_count + samples_delay - rf_start_sample_pos) * dwell; in
\* turns / SpcmFreq that is f_L times the number of samples since the first sample
\* of the first RF event.
C23_CarrierPhaseContinuous ==
    (/\ call.fn = "unroll_sequence"
     /\ call.pc \in {"loop", "done"}
     /\ call.k > 0
     /\ call.blk.rf # NoEvent
     /\ call.blk.rf.freq_offset = 0)
        => call.rf_phase
              = (call.larmor * 1000000
                    * (call.at_sample + call.blk.rf.delay - call.rf_start)) % SpcmFreq

\* C24 (as stated): in every block with an ADC event the reference side array is
\* 1 at sample m exactly where sin(2 pi f_L (sample_count + m) dwell) > 0, that is
\* where the phase f_L (sample_count + m) dwell lies strictly inside the first half
\* turn, sample_count being the samples of all preceding blocks; in a block without
\* an ADC event the reference is 0 everywhere.
C24_ReferenceFollowsSine ==
    (call.fn = "unroll_sequence" /\ call.pc \in {"loop", "done"} /\ call.k > 0) =>
        \A m \in 1..call.n_samples :
            IF call.blk.adc = NoEvent
            THEN call.ref[m] = 0
            ELSE LET p == (call.larmor * 1000000 * (call.at_sample + m - 1)) % SpcmFreq
                 IN  call.ref[m] = 1 <=> (0 < p /\ 2 * p < SpcmFreq)

\* The part of C24 about blocks without an ADC event, which the code satisfies.
C24_NoAdcNoReference ==
    (call.fn = "unroll_sequence" /\ call.pc \in {"loop", "done"} /\ call.k > 0
        /\ call.blk.adc = NoEvent) => \A m \in 1..call.n_samples : call.ref[m] = 0

C26_NoOverwriteWithoutFlag ==
    [][\A b \in BasePaths :
          /\ (files[b].exists /\ files'[b] # files[b]) =>
                (acq'.saves = acq.saves + 1 /\ acq'.last.overwrite /\ acq'.last.base = b)
          /\ (files[b].exists /\ acq'.saves = acq.saves + 1 /\ acq'.last.base = b
                /\ ~acq'.last.overwrite) =>
                (files' = files /\ ~acq'.last.written)
          /\ (files[b].exists /\ acq'.saves = acq.saves + 1 /\ acq'.last.base = b
                /\ acq'.last.overwrite) =>
                (files'[b].meta = acq.info /\ files'[b].meta_by = acq'.saves
                    /\ files'[b].raw_by = acq'.saves)]_vars

\* a second save without the flag was refused although info and additional data
\* changed since the first save
C26_Witness ==
    /\ acq.last.called
    /\ ~acq.last.overwrite
    /\ ~acq.last.written
    /\ files[acq.last.base].exists
    /\ files[acq.last.base].meta < acq.info
    /\ files[acq.last.base].extra < acq.extra

\* C27 (as stated): after any sequence of start_operation and stop_operation calls
\* that ends in stop_operation the card is stopped.
C27_StopStopsCard ==
    sync.last = "stop_operation" => ~sync.started

\* C28 (as stated): in every average the DDC runs exactly if rx_data is non-empty
\* when the wait ends, and post_processing processes exactly the gates counted by
\* the controller's last length read of rx_data: the readout sizes it reads and the
\* gates it groups are the first num_gates gates and nothing else.
C28_ProcessesCountedGates ==
    [][\A t \in Threads :
          /\ (InWait(t) /\ pc'[t] \in {"pp_sizes", "tx_stop"})
                => (pc'[t] = "pp_sizes" <=> Len(rx_data) > 0)
          /\ (pc[t] = "pp_group" /\ pc'[t] # "pp_group")
                => /\ Len(frame[t].pp_sizes) = frame[t].num_gates
                   /\ rx_data = frame[t].pp_sizes]_vars

\* the post-processing step of thread t merges rows only into buckets of the
\* readout length and gate count of the rows: a bucket that exists keeps its shape,
\* and a bucket that gains a row gains exactly one, taken from the group of the
\* same position, of the same readout length and gate count
MergesIntoOwnBucket(t) ==
    \A j \in 1..Len(unproc) :
        /\ j <= Len(unproc') /\ j <= Len(raw) /\ j <= Len(raw')
        /\ [unproc'[j] EXCEPT !.rows = 0] = [unproc[j] EXCEPT !.rows = 0]
        /\ [raw'[j] EXCEPT !.rows = 0] = [raw[j] EXCEPT !.rows = 0]
        /\ unproc'[j].rows \in {unproc[j].rows, unproc[j].rows + 1}
        /\ raw'[j].rows \in {raw[j].rows, raw[j].rows + 1}
        /\ (unproc'[j].rows # unproc[j].rows \/ raw'[j].rows # raw[j].rows) =>
              /\ GroupError(frame[t].pp_sizes, rx_data) = "none"
              /\ LET gl == gate_lengths(frame[t].pp_sizes, rx_data)
                 IN  /\ j <= Len(gl)
                     /\ gl[j].nro = unproc[j].nro
                     /\ gl[j].npe = unproc[j].npe
                     /\ gl[j].npe = raw[j].npe

\* C29 (as stated): across the averages of one run raw and unprocessed always
\* have the same number of buckets and the same number of rows per bucket, and a
\* bucket only receives rows of its own readout length and gate count, whatever
\* the gates of a later average are.
C29_BucketsStayAligned ==
    [][/\ Len(raw') = Len(unproc')
       /\ \A j \in 1..Len(raw') :
             raw'[j].rows = unproc'[j].rows /\ raw'[j].npe = unproc'[j].npe
       /\ \A t \in Threads :
             (pc[t] = "pp_group" /\ pc'[t] # "pp_group") => MergesIntoOwnBucket(t)]_vars

\* The part of C29 about the merging, which the code satisfies: np.concatenate
\* refuses a row of another readout length or gate count.
C29_NoWrongMerge ==
    [][\A t \in Threads :
          (pc[t] = "pp_group" /\ pc'[t] # "pp_group") => MergesIntoOwnBucket(t)]_vars

Next ==
    \/ Update
    \/ RxWorkerAppend
    \/ SetSequence(1)
    \/ RunStep(1)
    \/ CallReturns(1)

Spec == Init /\ [][Next]_vars

\* the same, with the calling thread always taking its next step inside run
FairSpec == Spec /\ WF_vars(RunStep(1))

\* as Spec, the parameter updates being updates of the decimation
NextDecim ==
    \/ UpdateDecimation
    \/ RxWorkerAppend
    \/ SetSequence(1)
    \/ RunStep(1)
    \/ CallReturns(1)

SpecDecim == Init /\ [][NextDecim]_vars

\* two threads call run on a controller that is set up and has a sequence set, each
\* of them once; the RX worker runs concurrently and the parameters do not change
InitConc ==
    /\ parameter = DefaultParam
    /\ updates = 0
    /\ is_setup = TRUE
    /\ sequence \in {s \in Sequences : s.adc_count > 0}
    /\ param_hash = get_hash(parameter)
    /\ unrolled_seq = UnrollResult(sequence, parameter)
    /\ raw = <<>>
    /\ unproc = <<>>
    /\ tx_running = FALSE
    /\ tx_offsets = 0
    /\ tx_seq = NoneUnrolled
    /\ rx_running = FALSE
    /\ rx_data = <<>>
    /\ pc = [t \in Threads |-> "idle"]
    /\ frame = [t \in Threads |-> NoFrame]
    /\ outcome = [t \in Threads |-> "none"]
    /\ result = [t \in Threads |-> NoneResult]
    /\ entry = [t \in Threads |-> NoEntry]
    /\ unrolls = [t \in Threads |-> 0]
    /\ avg_calls = [t \in Threads |-> {}]
    /\ call = NoCall
    /\ acq = NewAcquisitionData
    /\ files = [b \in BasePaths |-> NoFolder]
    /\ sync = NewSyncCard

\* a step of run by thread t when the parameters are the ones of the last unroll
RunSameHash(t) ==
    \/ RunEnter(t)
    \/ HashCheck(t)
    \/ Begin(t)
    \/ ForAverages(t)
    \/ RxStart(t)
    \/ TxStart(t)
    \/ PollTest(t)
    \/ PollSleep(t)
    \/ PPReadSizes(t)
    \/ PPProcess(t)
    \/ TxStop(t)
    \/ RxStop(t)
    \/ NextAverage(t)
    \/ ResetOffsets(t)
    \/ PostCheck(t)
    \/ ReturnData(t)

NextConc ==
    \/ RxWorkerAppend
    \/ \E t \in Threads : RunSameHash(t)

SpecConc == InitConc /\ [][NextConc]_vars


\* single functions of the post-processing and of the sequence provider, each
\* called on inputs of its own, one call at a time
InitPure == Init /\ is_setup /\ parameter = DefaultParam

NextPure ==
    \/ GroupGates
    \/ UnrollEnter
    \/ UnrollCheck
    \/ UnrollBlock
    \/ UnrollReturn
    \/ UnpackGate
    \/ CallDone

SpecPure == InitPure /\ [][NextPure]_vars

\* the operations of an AcquisitionData object and of the SyncCard
InitObjects == Init /\ is_setup /\ parameter = DefaultParam

NextObjects ==
    \/ AddInfo
    \/ AddData
    \/ Save
    \/ SyncStart
    \/ SyncStop

SpecObjects == InitObjects /\ [][NextObjects]_vars

====
